---- MODULE Spec2Model ----
(***************************************************************************)
(* Model of hocrOuput.py: the Textract response is normalised into a       *)
(* page -> line -> word tree (parse_results / parse_block), rendered as    *)
(* HOCR markup (render_html), and projected to a transcript                *)
(* (get_transcript); main drives the collaborators and writes two files.   *)
(*                                                                         *)
(* Python dicts are insertion-ordered: a dict is modelled as a sequence of *)
(* [key, val] entries.  A JSON record is modelled as a TLA+ record whose   *)
(* field Keys is the set of optional keys the JSON object really carries;  *)
(* block["k"] on a key outside Keys raises KeyError, block.get("k", d)     *)
(* yields d.  Fractional numbers (bounding boxes, confidences) are exact   *)
(* multiples of 1/Denom and are stored as their integer numerators.        *)
(***************************************************************************)
EXTENDS Integers, Sequences, FiniteSets, TLC

VARIABLES
    pc,             \* position of main
    path_exists,    \* os.path.exists(input_document_url)
    img_size,       \* <<img_width, img_height>>, <<0, 0>> before it is read
    textract_json,  \* the response of call_textract
    idx,            \* index of the next block of the loop of parse_results
    result_data,    \* the Normalized Tree under construction
    doc,            \* the markup built by render_html
    files,          \* the two output files
    calls,          \* the collaborators invoked so far, in order
    stdout,         \* the messages printed so far
    error           \* the exception that ended main, "" when none

vars == <<pc, path_exists, img_size, textract_json, idx, result_data, doc,
          files, calls, stdout, error>>

----------------------------------------------------------------------------
(* Bounds of the explored inputs *)

MaxBlocks == 3      \* longest Blocks list
MaxPage == 2        \* largest page number
MaxCoord == 1       \* largest numerator of a bounding box coordinate
MaxDim == 2         \* largest image width
MaxIds == 2         \* longest Ids list of a relationship group
Denom == 4          \* fractional values are multiples of 1/Denom

(* Program constants *)

DefaultPage == 1    \* block.get("Page", 1)

----------------------------------------------------------------------------
(* Python built-ins *)

\* int(x) of the fraction n/Denom: truncation toward zero
PyInt(n) == IF n >= 0 THEN n \div Denom ELSE -((-n) \div Denom)

Min(S) == CHOOSE x \in S : \A y \in S : x <= y

\* d[k] = v on an insertion-ordered dict: an existing key keeps its place
DictSet(d, k, v) ==
    IF \E i \in 1..Len(d) : d[i].key = k
    THEN [i \in 1..Len(d) |-> IF d[i].key = k THEN [key |-> k, val |-> v] ELSE d[i]]
    ELSE Append(d, [key |-> k, val |-> v])

\* k in d
DictHas(d, k) == \E i \in 1..Len(d) : d[i].key = k

\* d[k], for k in d
DictGet(d, k) == d[CHOOSE i \in 1..Len(d) : d[i].key = k].val

\* list(d.keys())
DictKeys(d) == [i \in 1..Len(d) |-> d[i].key]

\* sep.join(strs)
RECURSIVE Join(_, _)
Join(sep, strs) ==
    IF Len(strs) = 0 THEN ""
    ELSE IF Len(strs) = 1 THEN strs[1]
    ELSE strs[1] \o sep \o Join(sep, Tail(strs))

----------------------------------------------------------------------------
(* Records of the provider's response *)

Polygon0 == << [X |-> 0, Y |-> 0] >>

DefaultBox == [Left |-> 1, Top |-> 1, Width |-> 1, Height |-> 1]

Texts == <<"Hello", "World", "foo", "bar", "baz">>

TextOf(id) == Texts[((id - 1) % Len(Texts)) + 1]

\* a confidence of 98 + id/Denom-ish: its integer part is not its rounding
ConfOf(id) == 98 * Denom + (Denom - 1) - (id % 2)

Block(type, id, keys, page, rels, box) ==
    [BlockType |-> type, Id |-> id, Keys |-> keys, Page |-> page,
     Confidence |-> ConfOf(id), Text |-> TextOf(id), TextType |-> "PRINTED",
     Geometry |-> [BoundingBox |-> box, Polygon |-> Polygon0],
     Relationships |-> rels]

\* the absence signal of get_block_by_id
None == Block("None", 0, {}, 0, <<>>, DefaultBox)

PageKeys(page) == IF page = 0 THEN {} ELSE {"Page"}

\* a PAGE record carries Geometry but neither Text nor Confidence
PageBlock(id, page) ==
    Block("PAGE", id, {"Geometry"} \cup PageKeys(page), page, <<>>, DefaultBox)

WordBlock(id, box) ==
    Block("WORD", id, {"Confidence", "Text", "Geometry", "TextType"}, 0, <<>>, box)

\* a LINE record without the Relationships key
LineBlock(id, page, box) ==
    Block("LINE", id, {"Confidence", "Text", "Geometry"} \cup PageKeys(page),
          page, <<>>, box)

\* a LINE record whose Relationships key holds the list rels of groups;
\* a group is modelled by its list of Ids
LinkedLine(id, rels, box) ==
    Block("LINE", id, {"Confidence", "Text", "Geometry", "Relationships"},
          0, rels, box)

\* a LINE record without Geometry
BareLine(id) == Block("LINE", id, {"Confidence", "Text"}, 0, <<>>, DefaultBox)

----------------------------------------------------------------------------
(* The responses call_textract may return *)

Pages == 0..MaxPage     \* 0: the record has no Page key

PageShapes == {<<t, p>> : t \in {"PAGE", "LINE"}, p \in Pages}

PageShaped(sh, i) ==
    IF sh[1] = "PAGE" THEN PageBlock(i, sh[2]) ELSE LineBlock(i, sh[2], DefaultBox)

\* PAGE and LINE records on any pages, in any order, no relationships
PageResponses ==
    UNION { { [i \in 1..n |-> PageShaped(s[i], i)] : s \in [1..n -> PageShapes] }
            : n \in 0..MaxBlocks }

BlockIds == 1..MaxBlocks

IdLists == UNION { [1..n -> BlockIds] : n \in 0..MaxIds }

\* Relationships: [] (no group), or one group holding a list of Ids
RelChoices == {<<>>} \cup {<<ids>> : ids \in IdLists}

PlainShapes == {"PAGE", "LINE", "WORD"}

PlainShaped(t, i) ==
    CASE t = "PAGE" -> PageBlock(i, 0)
      [] t = "LINE" -> LineBlock(i, 0, DefaultBox)
      [] OTHER -> WordBlock(i, DefaultBox)

\* at most one LINE with a Relationships key (at position k, when k <= n),
\* any records around it
LinkResponses ==
    UNION { { [i \in 1..n |-> IF i = k THEN LinkedLine(i, rels, DefaultBox)
                                       ELSE PlainShaped(s[i], i)]
              : s \in [1..n -> PlainShapes], rels \in RelChoices }
            : n \in 1..MaxBlocks, k \in 1..MaxBlocks }

Coords == (0 - MaxCoord)..MaxCoord

Extents == 0..MaxCoord

Boxes == [Left : Coords, Top : Coords, Width : Extents, Height : Extents]

\* one LINE and its one WORD, with any bounding box on either, and the
\* malformed records: a LINE or a WORD without Geometry
BoxResponses ==
    { <<LinkedLine(1, << <<2>> >>, b), WordBlock(2, DefaultBox)>> : b \in Boxes }
    \cup { <<LinkedLine(1, << <<2>> >>, DefaultBox), WordBlock(2, b)>> : b \in Boxes }
    \cup { <<BareLine(1)>>,
           <<LinkedLine(1, << <<2>> >>, DefaultBox),
             Block("WORD", 2, {"Confidence", "Text"}, 0, <<>>, DefaultBox)>> }

Responses == PageResponses \cup LinkResponses \cup BoxResponses

ImageSizes == {<<w, w + 1>> : w \in 1..MaxDim}

----------------------------------------------------------------------------
(* get_block_by_id *)

get_block_by_id(result, block_id) ==
    LET hits == {i \in 1..Len(result.Blocks) : result.Blocks[i].Id = block_id}
    IN  IF hits = {} THEN None ELSE result.Blocks[Min(hits)]

----------------------------------------------------------------------------
(* parse_block *)

Raise(e) == [err |-> e, data |-> <<>>]

Return(v) == [err |-> "", data |-> v]

\* the keys read with block["..."] when a node is built
NodeKeys == {"Confidence", "Text", "Geometry"}

\* the dict literal of lines 63-70
word_node(word_block) ==
    [BlockType |-> word_block.BlockType,
     Confidence |-> word_block.Confidence,
     Text |-> word_block.Text,
     TextType |-> IF "TextType" \in word_block.Keys
                  THEN word_block.TextType ELSE "None",
     BoundingBox |-> word_block.Geometry.BoundingBox,
     Polygon |-> word_block.Geometry.Polygon]

\* the loop of lines 60-70, leaving the loop at the first unknown identifier
RECURSIVE parse_words_break(_, _, _)
parse_words_break(ids, result, words) ==
    IF ids = <<>> THEN Return(words)
    ELSE LET word_id == Head(ids)
             word_block == get_block_by_id(result, word_id)
         IN  IF word_block # None
             THEN IF ~(NodeKeys \subseteq word_block.Keys)
                  THEN Raise("KeyError")
                  ELSE parse_words_break(Tail(ids), result,
                                         DictSet(words, word_id, word_node(word_block)))
             ELSE Return(words)

\* the loop of lines 60-70 over the Ids still to visit
RECURSIVE parse_words(_, _, _)
parse_words(ids, result, words) ==
    IF ids = <<>> THEN Return(words)
    ELSE LET word_id == Head(ids)
             word_block == get_block_by_id(result, word_id)
         IN  IF word_block # None
             THEN IF ~(NodeKeys \subseteq word_block.Keys)
                  THEN Raise("KeyError")
                  ELSE parse_words(Tail(ids), result,
                                   DictSet(words, word_id, word_node(word_block)))
             ELSE parse_words(Tail(ids), result, words)

\* block.get("Relationships", [{}])
relationships(block) ==
    IF "Relationships" \in block.Keys THEN block.Relationships ELSE << <<>> >>

parse_block(block, result) ==
    IF ~(NodeKeys \subseteq block.Keys) THEN Raise("KeyError")
    ELSE IF Len(relationships(block)) = 0 THEN Raise("IndexError")
    ELSE LET r == parse_words(relationships(block)[1], result, <<>>)
         IN  IF r.err # "" THEN r
             ELSE Return([BlockType |-> block.BlockType,
                          Confidence |-> block.Confidence,
                          Text |-> block.Text,
                          BoundingBox |-> block.Geometry.BoundingBox,
                          Polygon |-> block.Geometry.Polygon,
                          Words |-> r.data])

----------------------------------------------------------------------------
(* parse_results: one iteration of the loop over result["Blocks"] *)

\* block.get("Page", 1)
page_number(block) == IF "Page" \in block.Keys THEN block.Page ELSE DefaultPage

\* lines 84-86 with the PAGE branch creating nothing
parse_page_skip(data, block) == data

\* lines 84-86
parse_page(data, block) == DictSet(data, page_number(block), <<>>)

\* lines 90-91
ensure_page(data, block) ==
    IF ~DictHas(data, page_number(block))
    THEN DictSet(data, page_number(block), <<>>)
    ELSE data

\* lines 88-92
parse_line(data, block, result) ==
    LET pb == parse_block(block, result)
        d1 == ensure_page(data, block)
    IN  IF pb.err # "" THEN pb
        ELSE Return(DictSet(d1, page_number(block),
                            DictSet(DictGet(d1, page_number(block)),
                                    block.Id, pb.data)))

parse_step(data, block, result) ==
    IF block.BlockType = "PAGE" THEN Return(parse_page(data, block))
    ELSE IF block.BlockType = "LINE" THEN parse_line(data, block, result)
    ELSE Return(data)

----------------------------------------------------------------------------
(* render_html *)

\* the title attribute of an ocr_line element (line 113)
line_title(line, pic_w, pic_h) ==
    [bbox |-> << PyInt(line.BoundingBox.Left * pic_w),
                 PyInt(line.BoundingBox.Top * pic_h),
                 PyInt(line.BoundingBox.Left * pic_w + line.BoundingBox.Width * pic_w),
                 PyInt(line.BoundingBox.Top * pic_h + line.BoundingBox.Height * pic_h) >>,
     x_wconf |-> PyInt(line.Confidence)]

\* the title attribute of an ocrx_word element (line 117)
word_title(word, pic_w, pic_h) ==
    [bbox |-> << PyInt(word.BoundingBox.Left * pic_w),
                 PyInt(word.BoundingBox.Top * pic_h),
                 PyInt(word.BoundingBox.Left * pic_w + word.BoundingBox.Width * pic_w),
                 PyInt(word.BoundingBox.Top * pic_h + word.BoundingBox.Height * pic_h) >>,
     x_wconf |-> PyInt(word.Confidence)]

render_word(entry, pic_w, pic_h) ==
    [klass |-> "ocrx_word", word_id |-> entry.key,
     title |-> word_title(entry.val, pic_w, pic_h),
     text |-> entry.val.Text \o " "]

\* an ocr_line element whose words are emitted last first
render_line_reversed(entry, pic_w, pic_h) ==
    [klass |-> "ocr_line", line_id |-> entry.key,
     title |-> line_title(entry.val, pic_w, pic_h),
     children |-> [k \in 1..Len(entry.val.Words) |->
                      render_word(entry.val.Words[Len(entry.val.Words) + 1 - k],
                                  pic_w, pic_h)]]

render_line(entry, pic_w, pic_h) ==
    [klass |-> "ocr_line", line_id |-> entry.key,
     title |-> line_title(entry.val, pic_w, pic_h),
     children |-> [k \in 1..Len(entry.val.Words) |->
                      render_word(entry.val.Words[k], pic_w, pic_h)]]

render_page(entry, pic_w, pic_h) ==
    [klass |-> "ocr_page", id |-> <<"page_", entry.key>>,
     children |-> [l \in 1..Len(entry.val) |->
                      render_line(entry.val[l], pic_w, pic_h)]]

\* the children of <body>, in document order
render_html(data, pic_w, pic_h) ==
    [p \in 1..Len(data) |-> render_page(data[p], pic_w, pic_h)]

----------------------------------------------------------------------------
(* get_transcript *)

\* the generator of line 130 without its BlockType filter on WORD records
RECURSIVE line_texts_unfiltered(_)
line_texts_unfiltered(blocks) ==
    IF blocks = <<>> THEN <<>>
    ELSE IF Head(blocks).BlockType \in {"LINE", "WORD"}
         THEN <<Head(blocks).Text>> \o line_texts_unfiltered(Tail(blocks))
         ELSE line_texts_unfiltered(Tail(blocks))

\* the generator of line 130: the Text of the LINE blocks, in list order
RECURSIVE line_texts(_)
line_texts(blocks) ==
    IF blocks = <<>> THEN <<>>
    ELSE IF Head(blocks).BlockType = "LINE"
         THEN <<Head(blocks).Text>> \o line_texts(Tail(blocks))
         ELSE line_texts(Tail(blocks))

get_transcript(result) ==
    IF \E i \in 1..Len(result.Blocks) :
          result.Blocks[i].BlockType = "LINE" /\ "Text" \notin result.Blocks[i].Keys
    THEN Raise("KeyError")
    ELSE Return(Join("\n", line_texts(result.Blocks)))

----------------------------------------------------------------------------
(* main *)

AbsentFile == [state |-> "absent", hocr |-> <<>>, txt |-> ""]

OldFile == [state |-> "old", hocr |-> <<>>, txt |-> ""]

Init ==
    /\ pc = "check"
    /\ path_exists \in BOOLEAN
    /\ img_size = <<0, 0>>
    /\ textract_json = [Blocks |-> <<>>]
    /\ idx = 1
    /\ result_data = <<>>
    /\ doc = <<>>
    /\ files \in {[hocr |-> f, txt |-> f] : f \in {AbsentFile, OldFile}}
    /\ calls = <<>>
    /\ stdout = <<>>
    /\ error = ""

\* lines 139-141 without the return after the message
CheckPathNoReturn ==
    /\ pc = "check"
    /\ calls' = Append(calls, "os.path.exists")
    /\ stdout' = IF ~path_exists
                 THEN Append(stdout, "The file does not exist.") ELSE stdout
    /\ pc' = "open_image"
    /\ UNCHANGED <<path_exists, img_size, textract_json, idx, result_data,
                   doc, files, error>>

\* lines 139-141
CheckPath ==
    /\ pc = "check"
    /\ calls' = Append(calls, "os.path.exists")
    /\ IF ~path_exists
       THEN /\ stdout' = Append(stdout, "The file does not exist.")
            /\ pc' = "done"
       ELSE /\ stdout' = stdout
            /\ pc' = "open_image"
    /\ UNCHANGED <<path_exists, img_size, textract_json, idx, result_data,
                   doc, files, error>>

\* lines 143-145; Image.open raises on a file that is no image
OpenImage ==
    /\ pc = "open_image"
    /\ calls' = Append(calls, "Image.open")
    /\ \/ /\ \E size \in ImageSizes : img_size' = size
          /\ stdout' = Append(stdout, "Image width, Image height")
          /\ pc' = "call_textract"
          /\ error' = error
       \/ /\ error' = "UnidentifiedImageError"
          /\ pc' = "raised"
          /\ UNCHANGED <<img_size, stdout>>
    /\ UNCHANGED <<path_exists, textract_json, idx, result_data, doc, files>>

\* lines 147-150 with the .hocr file opened for writing around the call
CallTextractFileOpen ==
    /\ pc = "call_textract"
    /\ calls' = calls \o <<"open .hocr", "call_textract">>
    /\ files' = [files EXCEPT !.hocr = [state |-> "written", hocr |-> <<>>, txt |-> ""]]
    /\ \/ /\ \E blocks \in Responses : textract_json' = [Blocks |-> blocks]
          /\ stdout' = stdout \o <<"Calling Textract...",
                                   "Processing Textract Results...">>
          /\ pc' = "parse"
          /\ error' = error
       \/ /\ error' = "ClientError"
          /\ stdout' = Append(stdout, "Calling Textract...")
          /\ pc' = "raised"
          /\ UNCHANGED textract_json
    /\ idx' = 1
    /\ result_data' = <<>>
    /\ UNCHANGED <<path_exists, img_size, doc>>

\* lines 147-150; the service call returns a response or raises
CallTextract ==
    /\ pc = "call_textract"
    /\ calls' = Append(calls, "call_textract")
    /\ \/ /\ \E blocks \in Responses : textract_json' = [Blocks |-> blocks]
          /\ stdout' = stdout \o <<"Calling Textract...",
                                   "Processing Textract Results...">>
          /\ pc' = "parse"
          /\ error' = error
       \/ /\ error' = "ClientError"
          /\ stdout' = Append(stdout, "Calling Textract...")
          /\ pc' = "raised"
          /\ UNCHANGED textract_json
    /\ idx' = 1
    /\ result_data' = <<>>
    /\ UNCHANGED <<path_exists, img_size, doc, files>>

\* lines 83-92: one iteration of the loop of parse_results
ParseBlock ==
    /\ pc = "parse"
    /\ idx <= Len(textract_json.Blocks)
    /\ LET r == parse_step(result_data, textract_json.Blocks[idx], textract_json)
       IN  IF r.err # ""
           THEN /\ error' = r.err
                /\ pc' = "raised"
                /\ UNCHANGED <<idx, result_data>>
           ELSE /\ result_data' = r.data
                /\ idx' = idx + 1
                /\ UNCHANGED <<pc, error>>
    /\ UNCHANGED <<path_exists, img_size, textract_json, doc, files, calls, stdout>>

\* line 94, line 151: parse_results returns
ParseReturn ==
    /\ pc = "parse"
    /\ idx > Len(textract_json.Blocks)
    /\ calls' = Append(calls, "parse_results")
    /\ pc' = "render"
    /\ UNCHANGED <<path_exists, img_size, textract_json, idx, result_data,
                   doc, files, stdout, error>>

\* line 152
Render ==
    /\ pc = "render"
    /\ doc' = render_html(result_data, img_size[1], img_size[2])
    /\ calls' = Append(calls, "render_html")
    /\ pc' = "write_hocr"
    /\ UNCHANGED <<path_exists, img_size, textract_json, idx, result_data,
                   files, stdout, error>>

\* lines 156-158
WriteHocr ==
    /\ pc = "write_hocr"
    /\ files' = [files EXCEPT !.hocr = [state |-> "written", hocr |-> doc, txt |-> ""]]
    /\ calls' = Append(calls, "open .hocr")
    /\ stdout' = Append(stdout, "Results printed out .hocr")
    /\ pc' = "write_txt"
    /\ UNCHANGED <<path_exists, img_size, textract_json, idx, result_data,
                   doc, error>>

\* lines 160-163; the file is opened before get_transcript is evaluated
WriteTxt ==
    /\ pc = "write_txt"
    /\ calls' = Append(calls, "open .txt")
    /\ LET t == get_transcript(textract_json)
       IN  IF t.err # ""
           THEN /\ files' = [files EXCEPT !.txt =
                                [state |-> "written", hocr |-> <<>>, txt |-> ""]]
                /\ error' = t.err
                /\ pc' = "raised"
                /\ stdout' = stdout
           ELSE /\ files' = [files EXCEPT !.txt =
                                [state |-> "written", hocr |-> <<>>,
                                 txt |-> t.data \o "\n"]]
                /\ stdout' = stdout \o <<"Transcript printed out .txt", "Done">>
                /\ pc' = "done"
                /\ error' = error
    /\ UNCHANGED <<path_exists, img_size, textract_json, idx, result_data, doc>>

Next ==
    \/ CheckPath
    \/ OpenImage
    \/ CallTextract
    \/ ParseBlock
    \/ ParseReturn
    \/ Render
    \/ WriteHocr
    \/ WriteTxt

Spec == Init /\ [][Next]_vars

----------------------------------------------------------------------------
(* Vocabulary of the properties *)

Blocks == textract_json.Blocks

Count(seq, x) == Cardinality({i \in DOMAIN seq : seq[i] = x})

Has(seq, x) == \E i \in DOMAIN seq : seq[i] = x

IndexOf(seq, x) == Min({i \in DOMAIN seq : seq[i] = x})

Range(seq) == {seq[i] : i \in DOMAIN seq}

\* the page a record belongs to, an absent Page counted as 1
PageOf(b) == IF "Page" \in b.Keys THEN b.Page ELSE 1

Resolves(id) == \E i \in DOMAIN Blocks : Blocks[i].Id = id

PosOf(id) == CHOOSE i \in DOMAIN Blocks : Blocks[i].Id = id

RecordOf(id) == Blocks[PosOf(id)]

\* the line node of record b is in the Normalized Tree, under b's page
Stored(b) ==
    /\ DictHas(result_data, PageOf(b))
    /\ DictHas(DictGet(result_data, PageOf(b)), b.Id)

NodeOf(b) == DictGet(DictGet(result_data, PageOf(b)), b.Id)

IsLine(b) == b.BlockType = "LINE"

WellFormed(b) == {"Confidence", "Text", "Geometry"} \subseteq b.Keys

\* the record has no relationship group: no Relationships key, or an empty list
NoGroup(b) == "Relationships" \notin b.Keys \/ Len(b.Relationships) = 0

\* the Ids of the record's relationship group
GroupIds(b) ==
    IF "Relationships" \in b.Keys /\ Len(b.Relationships) > 0
    THEN b.Relationships[1] ELSE <<>>

UnwrittenFile(f) == f.state # "written"

----------------------------------------------------------------------------
(* C1 *)

\* C1: processing a PAGE record only ensures that its page entry exists:
\* every LINE record the loop of parse_results has already processed is still
\* stored in the Normalized Tree under its page, whatever records (PAGE
\* records of the same page included) were processed after it.
C1_PageKeepsLines ==
    \A j \in DOMAIN Blocks :
        (j < idx /\ IsLine(Blocks[j])) => Stored(Blocks[j])

----------------------------------------------------------------------------
(* C2 *)

\* C2: every Word node stored in a Line node of the Normalized Tree has an
\* identifier that get_block_by_id resolves to a record of BlockType WORD; a
\* child identifier resolving to a PAGE or LINE record never becomes a Word
\* node.
C2_WordNodesAreWords ==
    \A p \in DOMAIN result_data :
        \A l \in DOMAIN result_data[p].val :
            \A k \in DOMAIN result_data[p].val[l].val.Words :
                LET word_id == result_data[p].val[l].val.Words[k].key
                IN  /\ get_block_by_id(textract_json, word_id) # None
                    /\ get_block_by_id(textract_json, word_id).BlockType = "WORD"

----------------------------------------------------------------------------
(* C3 *)

\* C3: a LINE record with no relationship group (Relationships absent, or
\* present but holding no group) never makes parse_results raise: when the
\* loop reaches it the run does not end in an exception, and right after it
\* is processed its Line node is stored under its page with an empty Words
\* mapping.
C3_NoGroupNoError ==
    \A i \in DOMAIN Blocks :
        (IsLine(Blocks[i]) /\ WellFormed(Blocks[i]) /\ NoGroup(Blocks[i])) =>
            /\ (i = idx => pc # "raised")
            /\ (i = idx - 1 =>
                   /\ Stored(Blocks[i])
                   /\ NodeOf(Blocks[i]).Words = <<>>)

----------------------------------------------------------------------------
(* C4 *)

\* the resolvable children of b are records a Word node can be built from
ChildrenWellFormed(b) ==
    \A n \in DOMAIN GroupIds(b) :
        Resolves(GroupIds(b)[n]) => WellFormed(RecordOf(GroupIds(b)[n]))

\* C4: a child identifier of a LINE that matches no record of the Blocks list
\* raises no error and is left out of the Line node's Words mapping, and every
\* child identifier of the same LINE that does resolve has its Word node,
\* carrying the text, confidence and bounding box of the record it names.
C4_DanglingOmitted ==
    \A i \in DOMAIN Blocks :
        LET b == Blocks[i]
        IN  (IsLine(b) /\ WellFormed(b) /\ ~NoGroup(b) /\ ChildrenWellFormed(b)) =>
              /\ (i = idx => pc # "raised")
              /\ (i = idx - 1 =>
                    /\ Stored(b)
                    /\ Range(DictKeys(NodeOf(b).Words))
                         = {id \in Range(GroupIds(b)) : Resolves(id)}
                    /\ \A k \in DOMAIN NodeOf(b).Words :
                          LET w == NodeOf(b).Words[k]
                          IN  /\ w.val.Text = RecordOf(w.key).Text
                              /\ w.val.Confidence = RecordOf(w.key).Confidence
                              /\ w.val.BoundingBox
                                   = RecordOf(w.key).Geometry.BoundingBox)

\* a LINE listing an unknown identifier before a known one has been processed
\* and holds exactly the known one
C4_Witness ==
    \E i \in DOMAIN Blocks :
        /\ i = idx - 1
        /\ IsLine(Blocks[i])
        /\ Len(GroupIds(Blocks[i])) = 2
        /\ ~Resolves(GroupIds(Blocks[i])[1])
        /\ Resolves(GroupIds(Blocks[i])[2])
        /\ Stored(Blocks[i])
        /\ DictKeys(NodeOf(Blocks[i]).Words) = <<GroupIds(Blocks[i])[2]>>

----------------------------------------------------------------------------
(* C5 *)

LineIdx == {i \in DOMAIN Blocks : IsLine(Blocks[i])}

\* the number of characters the transcript holds before the text of LINE k
RECURSIVE OffsetOf(_)
OffsetOf(k) ==
    LET before == {j \in LineIdx : j < k}
    IN  IF before = {} THEN 0
        ELSE LET j == CHOOSE m \in before : \A n \in before : n <= m
             IN  OffsetOf(j) + Len(Blocks[j].Text) + 1

\* the transcript without the newline print adds at the end of the file
TranscriptWritten == SubSeq(files.txt.txt, 1, Len(files.txt.txt) - 1)

\* C5: the transcript written to the .txt file is the Text of every LINE
\* record, in the order of the Blocks list, each directly followed by one
\* newline except the last: no newline leads or trails it, and page numbers
\* and PAGE and WORD records do not change it; two LINE records Hello, World
\* give "Hello\nWorld".
C5_TranscriptIsLines ==
    files.txt.state = "written" =>
        /\ Len(files.txt.txt) >= 1
        /\ SubSeq(files.txt.txt, Len(files.txt.txt), Len(files.txt.txt)) = "\n"
        /\ \A k \in LineIdx :
              /\ SubSeq(TranscriptWritten, OffsetOf(k) + 1,
                        OffsetOf(k) + Len(Blocks[k].Text)) = Blocks[k].Text
              /\ OffsetOf(k) > 0 =>
                    SubSeq(TranscriptWritten, OffsetOf(k), OffsetOf(k)) = "\n"
              /\ (\A j \in LineIdx : j <= k) =>
                    Len(TranscriptWritten) = OffsetOf(k) + Len(Blocks[k].Text)
        /\ LineIdx = {} => TranscriptWritten = ""
        /\ (Len(Blocks) = 2 /\ LineIdx = {1, 2}) => TranscriptWritten = "Hello\nWorld"

\* a transcript of two lines of different pages, around a record that is no LINE
C5_Witness ==
    /\ files.txt.state = "written"
    /\ Len(Blocks) = 3
    /\ LineIdx = {1, 3}
    /\ PageOf(Blocks[1]) > PageOf(Blocks[3])
    /\ TranscriptWritten = "Hello\nfoo"

----------------------------------------------------------------------------
(* C6 *)

\* math.floor of the fraction n/Denom
Floor(n) == n \div Denom

\* the absolute box the spec states: floor of each product
FloorBox(B, W, H) ==
    << Floor(B.Left * W), Floor(B.Top * H),
       Floor(B.Left * W + B.Width * W), Floor(B.Top * H + B.Height * H) >>

\* C6: for every bounding box of the Normalized Tree and every image size,
\* the bbox integers render_html emits for a line and for a word are
\* floor(Left*W), floor(Top*H), floor(Left*W + Width*W),
\* floor(Top*H + Height*H): floor, not truncation toward zero.
C6_BBoxIsFloor ==
    Has(calls, "render_html") =>
        \A p \in DOMAIN doc :
            \A l \in DOMAIN doc[p].children :
                /\ doc[p].children[l].title.bbox
                     = FloorBox(result_data[p].val[l].val.BoundingBox,
                                img_size[1], img_size[2])
                /\ \A k \in DOMAIN doc[p].children[l].children :
                      doc[p].children[l].children[k].title.bbox
                        = FloorBox(result_data[p].val[l].val.Words[k].val.BoundingBox,
                                   img_size[1], img_size[2])

----------------------------------------------------------------------------
(* C7 *)

\* C7: when the path does not exist, main prints its message and returns:
\* call_textract is never invoked, the image is never opened, no exception
\* ends the run, and neither output file is opened, created or overwritten.
C7_MissingFileStops ==
    ~path_exists =>
        /\ pc \in {"check", "done"}
        /\ error = ""
        /\ ~Has(calls, "call_textract")
        /\ ~Has(calls, "Image.open")
        /\ ~Has(calls, "open .hocr")
        /\ ~Has(calls, "open .txt")
        /\ img_size = <<0, 0>>
        /\ UnwrittenFile(files.hocr)
        /\ UnwrittenFile(files.txt)
        /\ pc = "done" => stdout = <<"The file does not exist.">>

\* main has returned on a missing path, leaving an older .hocr file as it was
C7_Witness ==
    /\ ~path_exists
    /\ pc = "done"
    /\ stdout = <<"The file does not exist.">>
    /\ files.hocr.state = "old"

----------------------------------------------------------------------------
(* C8 *)

\* the records of the Blocks list the loop of parse_results has gone through
Processed == {j \in DOMAIN Blocks : j < idx}

\* the page numbers carried by the PAGE and LINE records gone through
PagesSeen ==
    {PageOf(Blocks[j]) : j \in {i \in Processed :
                                  Blocks[i].BlockType \in {"PAGE", "LINE"}}}

\* C8: the Normalized Tree holds exactly one entry per distinct page number
\* carried by a PAGE or LINE record (an absent Page counted as 1), the markup
\* holds exactly one ocr_page container page_<number> per entry, in the same
\* order, and a page that has a PAGE record and no LINE record has an empty
\* entry and a container with no ocr_line child.
C8_OnePagePerNumber ==
    /\ Range(DictKeys(result_data)) = PagesSeen
    /\ Len(result_data) = Cardinality(PagesSeen)
    /\ \A p \in DOMAIN result_data :
          (\A j \in Processed : IsLine(Blocks[j]) => PageOf(Blocks[j]) # result_data[p].key)
              => result_data[p].val = <<>>
    /\ Has(calls, "render_html") =>
          /\ Len(doc) = Len(result_data)
          /\ \A p \in DOMAIN doc :
                /\ doc[p].klass = "ocr_page"
                /\ doc[p].id = <<"page_", result_data[p].key>>
                /\ result_data[p].val = <<>> => doc[p].children = <<>>

\* a rendered response whose page 2 has a PAGE record and no LINE record, and
\* whose LINE record has no Page key
C8_Witness ==
    /\ Has(calls, "render_html")
    /\ \E i, j \in DOMAIN Blocks :
          /\ Blocks[i].BlockType = "PAGE" /\ PageOf(Blocks[i]) = 2
          /\ IsLine(Blocks[j]) /\ "Page" \notin Blocks[j].Keys
    /\ \A j \in DOMAIN Blocks : IsLine(Blocks[j]) => PageOf(Blocks[j]) # 2
    /\ Len(doc) = 2
    /\ \E p \in DOMAIN doc : doc[p].id = <<"page_", 2>> /\ doc[p].children = <<>>
    /\ \E p \in DOMAIN doc : doc[p].id = <<"page_", 1>> /\ doc[p].children # <<>>

----------------------------------------------------------------------------
(* C9 *)

\* the elements of seq that satisfy Resolves, each at its first occurrence
RECURSIVE FirstResolvable(_, _)
FirstResolvable(seq, seen) ==
    IF seq = <<>> THEN <<>>
    ELSE IF Resolves(Head(seq)) /\ Head(seq) \notin seen
         THEN <<Head(seq)>> \o FirstResolvable(Tail(seq), seen \cup {Head(seq)})
         ELSE FirstResolvable(Tail(seq), seen)

\* C9: the markup follows recognition order: in each ocr_page container the
\* ocr_line elements stand in the order of their LINE records in the Blocks
\* list, and in each ocr_line the ocrx_word elements are the resolvable child
\* identifiers of the LINE's relationship group, one element per identifier,
\* in the order the group lists them; nothing is sorted.
C9_RecognitionOrder ==
    Has(calls, "render_html") =>
        \A p \in DOMAIN doc :
            /\ \A l1, l2 \in DOMAIN doc[p].children :
                  l1 < l2 => PosOf(doc[p].children[l1].line_id)
                               < PosOf(doc[p].children[l2].line_id)
            /\ \A l \in DOMAIN doc[p].children :
                  LET e == doc[p].children[l]
                  IN  /\ IsLine(RecordOf(e.line_id))
                      /\ [k \in DOMAIN e.children |-> e.children[k].word_id]
                           = FirstResolvable(GroupIds(RecordOf(e.line_id)), {})
                      /\ \A k \in DOMAIN e.children :
                            /\ e.children[k].klass = "ocrx_word"
                            /\ e.children[k].text
                                 = RecordOf(e.children[k].word_id).Text \o " "

\* a rendered line whose group lists a later record before an earlier one
C9_Witness ==
    /\ Has(calls, "render_html")
    /\ \E p \in DOMAIN doc :
          \E l \in DOMAIN doc[p].children :
              /\ Len(doc[p].children[l].children) = 2
              /\ PosOf(doc[p].children[l].children[1].word_id)
                   > PosOf(doc[p].children[l].children[2].word_id)

----------------------------------------------------------------------------
(* C10 *)

Ended == pc \in {"done", "raised"}

\* what C10 says of the order of main's side effects and of its failures
OutputsAfterProcessing ==
    /\ Count(calls, "call_textract") <= 1
    /\ Count(calls, "open .hocr") <= 1
    /\ Count(calls, "open .txt") <= 1
    /\ Has(calls, "open .hocr") =>
          /\ Has(calls, "call_textract")
          /\ Has(calls, "parse_results")
          /\ Has(calls, "render_html")
          /\ IndexOf(calls, "call_textract") < IndexOf(calls, "parse_results")
          /\ IndexOf(calls, "parse_results") < IndexOf(calls, "render_html")
          /\ IndexOf(calls, "render_html") < IndexOf(calls, "open .hocr")
    /\ ~Has(calls, "open .hocr") => UnwrittenFile(files.hocr)
    /\ Has(calls, "open .txt") =>
          /\ Has(calls, "open .hocr")
          /\ IndexOf(calls, "open .hocr") < IndexOf(calls, "open .txt")
    /\ ~Has(calls, "open .txt") => UnwrittenFile(files.txt)
    /\ pc = "raised" =>
          /\ error # ""
          /\ UnwrittenFile(files.hocr)
          /\ UnwrittenFile(files.txt)
    /\ (pc = "done" /\ path_exists) =>
          /\ files.hocr.state = "written"
          /\ files.txt.state = "written"

\* C10 as stated: every run of main on an existing file invokes the OCR
\* collaborator exactly once; no output file is opened before that call,
\* parse_results and render_html have completed; a failure of the call, of
\* the normalization or of the rendering leaves both files untouched; the
\* .hocr file is written before the .txt file.
C10_OcrExactlyOnce ==
    /\ OutputsAfterProcessing
    /\ (path_exists /\ Ended) => Count(calls, "call_textract") = 1

\* C10 amended: the OCR collaborator is invoked at most once in every run,
\* and exactly once in every run on an existing file whose image dimensions
\* were read (Image.open did not raise); the rest as stated.
C10_OcrOnceAfterImage ==
    /\ OutputsAfterProcessing
    /\ (path_exists /\ Ended /\ error # "UnidentifiedImageError")
          => Count(calls, "call_textract") = 1
    /\ (Ended /\ error = "UnidentifiedImageError")
          => Count(calls, "call_textract") = 0

\* the normalization failed on a LINE record without Geometry, after the one
\* OCR call, and an older .hocr file is left as it was
C10_Witness ==
    /\ pc = "raised"
    /\ error = "KeyError"
    /\ Len(Blocks) = 1
    /\ IsLine(Blocks[1]) /\ "Geometry" \notin Blocks[1].Keys
    /\ Count(calls, "call_textract") = 1
    /\ files.hocr.state = "old"
    /\ files.txt.state = "old"

====
